---- MODULE Spec2Model ----
(***************************************************************************)
(* node-redis-scan: the RedisScan class (eachScan, scan and the store      *)
(* client's scan callback), modelled as a state machine.                   *)
(*                                                                         *)
(* A session is one call of eachScan (directly or through scan).  The      *)
(* store client is the environment: it holds the calls in flight and       *)
(* answers each of them with an error or with [cursor, matches].  Each     *)
(* reply runs the callback given to redisClient[method] to completion      *)
(* (JavaScript runs a callback without interleaving).                      *)
(***************************************************************************)
EXTENDS Integers, Sequences, FiniteSets, TLC

VARIABLES
    entry,              \* per session: the public method called and its arguments
    options,            \* per session: the options object of eachScan
    eachScanCallback,   \* per session: the value bound to eachScanCallback
    callback,           \* per session: the value bound to callback
    scanCallback,       \* per session: scan()'s own callback parameter
    matchesCount,       \* per session: let matchesCount
    keys,               \* per session: scan()'s let keys
    pending,            \* per session: store calls in flight
    log                 \* per session: calls, replies and callback invocations, in order

vars == <<entry, options, eachScanCallback, callback, scanCallback,
          matchesCount, keys, pending, log>>

(***************************************************************************)
(* Bounds of the model.                                                    *)
(***************************************************************************)
MaxRounds == 3          \* round trips answered per session
MaxBatchLen == 2        \* elements in one reply

Sessions == {1, 2}
Solo == {1}
Elems == {"a", "b"}
Errors == {"ECONNRESET", "ETIMEDOUT"}
StoreCursors == {"0", "17"}
Pattern == "p*"

(***************************************************************************)
(* JavaScript values.                                                      *)
(***************************************************************************)
Undefined == [t |-> "undefined"]
Null == [t |-> "null"]
Num(n) == [t |-> "number", v |-> n]
Str(x) == [t |-> "string", v |-> x]
Arr(a) == [t |-> "array", v |-> a]
Err(e) == [t |-> "error", v |-> e]
Fn(f) == [t |-> "function", v |-> f]
Obj(o) == [t |-> "object", v |-> o]

Callable(x) == x.t = "function"

\* The options object {}: no property is set.
NoOptions == [f \in {} |-> ""]

\* The sentinel cursor '0' of the store.
Sentinel == Str("0")

Batches == UNION {[1..n -> Elems] : n \in 0..MaxBatchLen}

SeqRemove(q, i) == SubSeq(q, 1, i - 1) \o SubSeq(q, i + 1, Len(q))

(***************************************************************************)
(* eachScan: reading the options.                                          *)
(***************************************************************************)
\* const method = options.method || 'scan'
Method(o) == IF "method" \in DOMAIN o /\ o.method # "" THEN o.method ELSE "scan"

\* const key = options.key || ''
Key(o) == IF "key" \in DOMAIN o THEN o.key ELSE ""

\* const count = options.count || 0
Count(o) == IF "count" \in DOMAIN o THEN o.count ELSE 0

\* The type filter of the options ('' when none is given).
Type(o) == IF "type" \in DOMAIN o THEN o.type ELSE ""

\* A variant that tests the count for truth: if (count)
Parameters_Truthy(o, cursor) ==
    LET base == IF Key(o) # ""
                THEN <<Str(Key(o)), cursor, Str("MATCH"), Str(Pattern)>>
                ELSE <<cursor, Str("MATCH"), Str(Pattern)>>
    IN  IF Count(o) # 0
        THEN base \o <<Str("COUNT"), Num(Count(o))>>
        ELSE base

\* let parameters = [cursor, 'MATCH', pattern]; the key first when there is
\* one; 'COUNT', count when count > 0.
Parameters(o, cursor) ==
    LET base == IF Key(o) # ""
                THEN <<Str(Key(o)), cursor, Str("MATCH"), Str(Pattern)>>
                ELSE <<cursor, Str("MATCH"), Str(Pattern)>>
    IN  IF Count(o) > 0
        THEN base \o <<Str("COUNT"), Num(Count(o))>>
        ELSE base

\* A variant that passes the type filter whatever the method.
TypeClause_Always(o) ==
    IF Type(o) # "" THEN <<Str("TYPE"), Str(Type(o))>> ELSE <<>>

\* The type-filter clause: only for the generic scan, when a type is given.
TypeClause(o) ==
    IF Method(o) = "scan" /\ Type(o) # ""
    THEN <<Str("TYPE"), Str(Type(o))>>
    ELSE <<>>

\* A variant that starts over from the first cursor on every call.
RecursiveScan_Restart(o, cursor) ==
    [ev |-> "call", method |-> Method(o),
     params |-> Parameters(o, Num(0)) \o TypeClause(o)]

\* recursiveScan(cursor): the store call it issues.
RecursiveScan(o, cursor) ==
    [ev |-> "call", method |-> Method(o),
     params |-> Parameters(o, cursor) \o TypeClause(o)]

(***************************************************************************)
(* eachScan: the callback of the store call.                               *)
(***************************************************************************)
\* A variant that counts a field and its value as one element.
AddCount_Pairs(total, matches) == total + (Len(matches) \div 2)

\* A variant that counts the batches.
AddCount_One(total, matches) == total + 1

\* A variant that assigns the batch length instead of adding it.
AddCount_Assign(total, matches) == Len(matches)

\* matchesCount += matches.length
AddCount(total, matches) == total + Len(matches)

\* A variant that puts the new batch in front of the collected keys.
Collect_Prepend(ks, matches) == matches \o ks

\* keys = keys.concat(matchingKeys)
Collect(ks, matches) == ks \o matches

\* A variant that ignores the return value of the batch callback.
Cancelled_Ignored(ret) == FALSE

\* The batch callback signalled cancellation (a truthy return value).
Cancelled(ret) == ret = TRUE

\* A variant that stops after the first batch whenever a limit is set.
LimitReached_Any(o, total) == "limit" \in DOMAIN o

\* A variant that stops only once the total exceeds the limit.
LimitReached_Exceeded(o, total) == "limit" \in DOMAIN o /\ total > o.limit

\* options.limit is set and the running total has reached it.
LimitReached(o, total) == "limit" \in DOMAIN o /\ total >= o.limit

\* A variant that tests the cursor for truth: if (cursor)
ScanComplete_Truthy(cursor) == cursor.v # ""

\* A variant that compares the cursor with the number 0.
ScanComplete_Number(cursor) == cursor = Num(0)

\* We're done once Redis returns 0 for the next cursor: cursor === '0'
ScanComplete(cursor) == cursor = Sentinel

\* The session ends after this batch.
Finished(cursor, ret, total, o) ==
    \/ Cancelled(ret)
    \/ LimitReached(o, total)
    \/ ScanComplete(cursor)

\* Calling the JavaScript value f with args: a function of the caller is
\* invoked, anything else throws a TypeError.
Invoke(f, args, ret) ==
    IF Callable(f)
    THEN <<[ev |-> "invoke", fn |-> f.v, args |-> args, ret |-> ret]>>
    ELSE <<[ev |-> "throw", error |-> "TypeError"]>>

\* A variant that hands every batch over twice.
BatchEvents_Twice(ecb, matches, ret) ==
    IF ecb = Fn("collect")
    THEN <<>>
    ELSE Invoke(ecb, <<Arr(matches)>>, ret) \o Invoke(ecb, <<Arr(matches)>>, ret)

\* A variant that skips the batch callback when the batch is empty.
BatchEvents_SkipEmpty(ecb, matches, ret) ==
    IF ecb = Fn("collect") \/ matches = <<>>
    THEN <<>>
    ELSE Invoke(ecb, <<Arr(matches)>>, ret)

\* eachScanCallback(matches): scan()'s collector is internal, any other
\* value is called as it is.
BatchEvents(ecb, matches, ret) ==
    IF ecb = Fn("collect") THEN <<>> ELSE Invoke(ecb, <<Arr(matches)>>, ret)

\* A variant that hands the collected keys over together with the error.
ScanFinish_Partial(scb, err, ks) == Invoke(scb, <<err, Arr(ks)>>, FALSE)

\* scan()'s final callback: callback(err) if (err), else callback(null, keys)
ScanFinish(scb, err, ks) ==
    IF err # Null
    THEN Invoke(scb, <<err>>, FALSE)
    ELSE Invoke(scb, <<Null, Arr(ks)>>, FALSE)

\* callback(...args) of eachScan, where callback may be scan()'s closure.
FinalEvents(cb, scb, args, ks) ==
    IF cb = Fn("finish")
    THEN ScanFinish(scb, args[1], ks)
    ELSE Invoke(cb, args, FALSE)

\* A variant that replaces the store's error by a generic one.
ErrorArgs_Generic(e) == <<Err("Error")>>

\* callback(err)
ErrorArgs(e) == <<Err(e)>>

\* callback(null, matchesCount)
DoneArgs(total) == <<Null, Num(total)>>

\* A variant that calls the final callback before the batch callback.
ReplyEvents_DoneFirst(batch, final, calls) == final \o batch \o calls

\* The statements after the running total is updated, in their order:
\* eachScanCallback(matches), then callback(null, matchesCount) or
\* recursiveScan(cursor).
ReplyEvents(batch, final, calls) == batch \o final \o calls

\* A variant that never recurses.
NextCalls_None(fin, call) == <<>>

\* A variant without the else: it recurses after the final callback too.
NextCalls_NoElse(fin, call) == <<call>>

\* A variant that issues the next store call twice.
NextCalls_Twice(fin, call) == IF fin THEN <<>> ELSE <<call, call>>

\* if (cursor === '0') callback(...) else recursiveScan(cursor)
NextCalls(fin, call) == IF fin THEN <<>> ELSE <<call>>

(***************************************************************************)
(* Selections of a session's log.                                          *)
(***************************************************************************)
IsCall(e) == e.ev = "call"
IsReply(e) == e.ev = "reply"
IsDataReply(e) == e.ev = "reply" /\ e.err = Null
IsErrReply(e) == e.ev = "reply" /\ e.err # Null
IsOnBatch(e) == e.ev = "invoke" /\ e.fn = "onBatch"
IsOnDone(e) == e.ev = "invoke" /\ e.fn = "onDone"
IsCb(e) == e.ev = "invoke" /\ e.fn = "cb"
IsThrow(e) == e.ev = "throw"

NumReplies(s) == Len(SelectSeq(log[s], IsReply))
NumCalls(s) == Len(SelectSeq(log[s], IsCall))

(***************************************************************************)
(* Initial state: no session has started.                                  *)
(***************************************************************************)
Init ==
    /\ entry = [s \in Sessions |-> [api |-> "none"]]
    /\ options = [s \in Sessions |-> NoOptions]
    /\ eachScanCallback = [s \in Sessions |-> Undefined]
    /\ callback = [s \in Sessions |-> Undefined]
    /\ scanCallback = [s \in Sessions |-> Undefined]
    /\ matchesCount = [s \in Sessions |-> 0]
    /\ keys = [s \in Sessions |-> <<>>]
    /\ pending = [s \in Sessions |-> <<>>]
    /\ log = [s \in Sessions |-> <<>>]

(***************************************************************************)
(* eachScan(pattern, options, eachScanCallback, callback)                  *)
(***************************************************************************)
\* A variant that shifts the two callbacks into each other's place.
EachScanArgs_Swapped(a2, a3, a4) ==
    IF a4 = Undefined
    THEN [options |-> Obj(NoOptions), eachScanCallback |-> a3, callback |-> a2]
    ELSE [options |-> a2, eachScanCallback |-> a3, callback |-> a4]

\* if (!callback) { callback = eachScanCallback;
\*                  eachScanCallback = options; options = {}; }
EachScanArgs(a2, a3, a4) ==
    IF a4 = Undefined
    THEN [options |-> Obj(NoOptions), eachScanCallback |-> a2, callback |-> a3]
    ELSE [options |-> a2, eachScanCallback |-> a3, callback |-> a4]

\* The body of eachScan after its arguments are bound: the first call of
\* recursiveScan, whose cursor defaults to the number 0.
BeginScan(s, o, ecb, cb) ==
    LET call == RecursiveScan(o, Num(0))
    IN  /\ options' = [options EXCEPT ![s] = o]
        /\ eachScanCallback' = [eachScanCallback EXCEPT ![s] = ecb]
        /\ callback' = [callback EXCEPT ![s] = cb]
        /\ matchesCount' = [matchesCount EXCEPT ![s] = 0]
        /\ pending' = [pending EXCEPT ![s] = Append(@, call)]
        /\ log' = [log EXCEPT ![s] = Append(@, call)]

\* this.eachScan(pattern, a2, a3, a4), called by the caller or by a variant.
EachScanBody(s, a2, a3, a4) ==
    /\ LET a == EachScanArgs(a2, a3, a4)
       IN  BeginScan(s, a.options.v, a.eachScanCallback, a.callback)
    /\ UNCHANGED <<scanCallback, keys>>

EachScan(s, a2, a3, a4) ==
    /\ log[s] = <<>>
    /\ entry' = [entry EXCEPT ![s] = [api |-> "eachScan", args |-> <<a2, a3, a4>>]]
    /\ EachScanBody(s, a2, a3, a4)

(***************************************************************************)
(* scan(pattern, options, callback)                                        *)
(***************************************************************************)
\* if (!callback) { callback = options; options = {}; }
ScanArgs(a2, a3) ==
    IF a3 = Undefined
    THEN [options |-> Obj(NoOptions), callback |-> a2]
    ELSE [options |-> a2, callback |-> a3]

\* this.scan(pattern, a2, a3), called by the caller or by a variant.
ScanBody(s, a2, a3) ==
    LET a == ScanArgs(a2, a3)
    IN  /\ scanCallback' = [scanCallback EXCEPT ![s] = a.callback]
        /\ keys' = [keys EXCEPT ![s] = <<>>]
        /\ BeginScan(s, EachScanArgs(a.options, Fn("collect"), Fn("finish")).options.v,
                     Fn("collect"), Fn("finish"))

Scan(s, a2, a3) ==
    /\ log[s] = <<>>
    /\ entry' = [entry EXCEPT ![s] = [api |-> "scan", args |-> <<a2, a3>>]]
    /\ ScanBody(s, a2, a3)

(***************************************************************************)
(* hscan, eachHScan, sscan, eachSScan, zscan, eachZScan                    *)
(***************************************************************************)
\* this.scan(pattern, {method: 'hscan', key: key}, callback)
HScan(s, key, cb) ==
    /\ log[s] = <<>>
    /\ entry' = [entry EXCEPT ![s] = [api |-> "hscan", args |-> <<Str(key), cb>>]]
    /\ ScanBody(s, Obj([method |-> "hscan", key |-> key]), cb)

\* this.eachScan(pattern, {method: 'hscan', key: key}, eachScanCallback, callback)
EachHScan(s, key, ecb, cb) ==
    /\ log[s] = <<>>
    /\ entry' = [entry EXCEPT ![s] = [api |-> "eachHScan", args |-> <<Str(key), ecb, cb>>]]
    /\ EachScanBody(s, Obj([method |-> "hscan", key |-> key]), ecb, cb)

\* this.scan(pattern, {method: 'sscan', key: key}, callback)
SScan(s, key, cb) ==
    /\ log[s] = <<>>
    /\ entry' = [entry EXCEPT ![s] = [api |-> "sscan", args |-> <<Str(key), cb>>]]
    /\ ScanBody(s, Obj([method |-> "sscan", key |-> key]), cb)

\* A variant of eachSScan copied from eachHScan with its method left as it was.
EachSScan_Copied(s, key, ecb, cb) ==
    /\ log[s] = <<>>
    /\ entry' = [entry EXCEPT ![s] = [api |-> "eachSScan", args |-> <<Str(key), ecb, cb>>]]
    /\ EachScanBody(s, Obj([method |-> "hscan", key |-> key]), ecb, cb)

\* this.eachScan(pattern, {method: 'sscan', key: key}, eachScanCallback, callback)
EachSScan(s, key, ecb, cb) ==
    /\ log[s] = <<>>
    /\ entry' = [entry EXCEPT ![s] = [api |-> "eachSScan", args |-> <<Str(key), ecb, cb>>]]
    /\ EachScanBody(s, Obj([method |-> "sscan", key |-> key]), ecb, cb)

\* this.scan(pattern, {method: 'zscan', key: key}, callback)
ZScan(s, key, cb) ==
    /\ log[s] = <<>>
    /\ entry' = [entry EXCEPT ![s] = [api |-> "zscan", args |-> <<Str(key), cb>>]]
    /\ ScanBody(s, Obj([method |-> "zscan", key |-> key]), cb)

\* this.eachScan(pattern, {method: 'zscan', key: key}, eachScanCallback, callback)
EachZScan(s, key, ecb, cb) ==
    /\ log[s] = <<>>
    /\ entry' = [entry EXCEPT ![s] = [api |-> "eachZScan", args |-> <<Str(key), ecb, cb>>]]
    /\ EachScanBody(s, Obj([method |-> "zscan", key |-> key]), ecb, cb)

(***************************************************************************)
(* The store client answers a call in flight: (err, data) => {...}         *)
(***************************************************************************)
ReplyError(s, i, e) ==
    /\ i \in 1..Len(pending[s])
    /\ NumReplies(s) < MaxRounds
    /\ pending' = [pending EXCEPT ![s] = SeqRemove(@, i)]
    /\ log' = [log EXCEPT ![s] =
                 @ \o <<[ev |-> "reply", err |-> Err(e)]>>
                   \o FinalEvents(callback[s], scanCallback[s], ErrorArgs(e), keys[s])]
    /\ UNCHANGED <<entry, options, eachScanCallback, callback, scanCallback,
                   matchesCount, keys>>

\* A variant that keeps the running total on the scanner instance, where
\* every session finds the total of the first one.
RunningTotal_Shared(s) == matchesCount[1]

\* let matchesCount: the running total of the session's own closure.
RunningTotal(s) == matchesCount[s]

ReplyData(s, i, cursor, matches, ret) ==
    /\ i \in 1..Len(pending[s])
    /\ NumReplies(s) < MaxRounds
    /\ NumReplies(s) = MaxRounds - 1 => cursor = Sentinel
    /\ eachScanCallback[s] # Fn("onBatch") => ret = FALSE
    /\ LET ecb == eachScanCallback[s]
           total == AddCount(RunningTotal(s), matches)
           ks == IF ecb = Fn("collect") THEN Collect(keys[s], matches) ELSE keys[s]
           threw == ecb # Fn("collect") /\ ~Callable(ecb)
           fin == Finished(cursor, ret, total, options[s])
           calls == IF threw THEN <<>> ELSE NextCalls(fin, RecursiveScan(options[s], cursor))
           final == IF threw \/ ~fin THEN <<>>
                    ELSE FinalEvents(callback[s], scanCallback[s], DoneArgs(total), ks)
       IN  /\ matchesCount' = [matchesCount EXCEPT ![s] = total]
           /\ keys' = [keys EXCEPT ![s] = ks]
           /\ pending' = [pending EXCEPT ![s] = SeqRemove(@, i) \o calls]
           /\ log' = [log EXCEPT ![s] =
                        @ \o <<[ev |-> "reply", err |-> Null,
                                cursor |-> cursor, matches |-> matches]>>
                          \o ReplyEvents(BatchEvents(ecb, matches, ret), final, calls)]
    /\ UNCHANGED <<entry, options, eachScanCallback, callback, scanCallback>>

(***************************************************************************)
(* The calls of the specification.                                         *)
(***************************************************************************)
CoreOptions ==
    {NoOptions, [limit |-> 2], [limit |-> 0],
     [method |-> "hscan", key |-> "h", count |-> 10]}

\* eachScan's argument lists after the pattern: with or without options,
\* with or without the final callback.
EachScanCalls ==
    {<<Obj(o), Fn("onBatch"), Fn("onDone")>> : o \in CoreOptions}
    \cup {<<Fn("onBatch"), Fn("onDone"), Undefined>>}
    \cup {<<Obj(o), Fn("onBatch"), Undefined>> : o \in CoreOptions}
    \cup {<<Fn("onBatch"), Undefined, Undefined>>}

\* scan's argument lists after the pattern: with or without options.
ScanCalls ==
    {<<Obj(o), Fn("cb")>> : o \in CoreOptions}
    \cup {<<Fn("cb"), Undefined>>}

StartEachScan(s) == \E c \in EachScanCalls : EachScan(s, c[1], c[2], c[3])

StartScan(s) == \E c \in ScanCalls : Scan(s, c[1], c[2])

StoreError(s) == \E i \in 1..Len(pending[s]), e \in Errors : ReplyError(s, i, e)

StoreData(s) ==
    \E i \in 1..Len(pending[s]), c \in StoreCursors, m \in Batches, ret \in BOOLEAN :
        ReplyData(s, i, Str(c), m, ret)

Next ==
    \E s \in Solo :
        \/ StartEachScan(s)
        \/ StartScan(s)
        \/ StoreError(s)
        \/ StoreData(s)

Spec == Init /\ [][Next]_vars

(***************************************************************************)
(* Two sessions on one scanner and one store client.  Session 1 is started *)
(* through a variant method, session 2 through eachScan or scan; their     *)
(* replies interleave freely.                                              *)
(***************************************************************************)
VariantMethods == {"hscan", "sscan", "zscan"}
PairKeys == {"h"}
PairBatches == {<<>>, <<"a", "b">>}

PairOptions ==
    {NoOptions} \cup {[method |-> m, key |-> k] : m \in VariantMethods, k \in PairKeys}

PairEachScan(s) ==
    \/ \E o \in PairOptions : EachScan(s, Obj(o), Fn("onBatch"), Fn("onDone"))
    \/ EachScan(s, Fn("onBatch"), Fn("onDone"), Undefined)

PairScan(s) ==
    \/ \E o \in PairOptions : Scan(s, Obj(o), Fn("cb"))
    \/ Scan(s, Fn("cb"), Undefined)

PairVariant(s) ==
    \E k \in PairKeys :
        \/ HScan(s, k, Fn("cb"))
        \/ EachHScan(s, k, Fn("onBatch"), Fn("onDone"))
        \/ SScan(s, k, Fn("cb"))
        \/ EachSScan(s, k, Fn("onBatch"), Fn("onDone"))
        \/ ZScan(s, k, Fn("cb"))
        \/ EachZScan(s, k, Fn("onBatch"), Fn("onDone"))

PairError(s) == \E i \in 1..Len(pending[s]), e \in Errors : ReplyError(s, i, e)

PairData(s) ==
    \E i \in 1..Len(pending[s]), c \in StoreCursors, m \in PairBatches :
        ReplyData(s, i, Str(c), m, FALSE)

PairNext ==
    \/ PairVariant(1)
    \/ \E s \in Sessions :
          \/ PairError(s)
          \/ PairData(s)
    \/ PairEachScan(2)
    \/ PairScan(2)

PairSpec == Init /\ [][PairNext]_vars

(***************************************************************************)
(* One session with any combination of the options method, key, count and  *)
(* type.  The store answers a well-formed call with data (field and value  *)
(* pairs, flattened, for hscan and zscan) and any call with an error.      *)
(***************************************************************************)
Maybe(S) == {<<>>} \cup {<<x>> : x \in S}

\* The property name of an options object, when it is given.
Field(name, choice) ==
    IF choice = <<>> THEN NoOptions ELSE [x \in {name} |-> choice[1]]

OptionSet ==
    {Field("method", m) @@ Field("key", k) @@ Field("count", c) @@ Field("type", t) :
        m \in Maybe(VariantMethods), k \in Maybe({"h"}),
        c \in Maybe({-1, 0, 1, 5}), t \in Maybe({"hash"})}

OptionBatches == {<<>>, <<"a">>, <<"b">>, <<"a", "b">>}

StorePairs == {<<"f", "1">>, <<"g", "2">>}
StorePairBatches ==
    {<<>>} \cup {<<p>> : p \in StorePairs}
           \cup {pq \in StorePairs \X StorePairs : pq[1] # pq[2]}

\* HSCAN and ZSCAN reply with a flat array: field, value, field, value, ...
FlatPairs(ps) ==
    [k \in 1..(2 * Len(ps)) |-> ps[(k + 1) \div 2][IF k % 2 = 1 THEN 1 ELSE 2]]

\* The command has the arguments the store expects: a key for HSCAN, SSCAN
\* and ZSCAN, none for SCAN.
WellFormed(o) == (Method(o) = "scan") = (Key(o) = "")

OptionEachScan(s) ==
    \E o \in OptionSet : EachScan(s, Obj(o), Fn("onBatch"), Fn("onDone"))

OptionScan(s) == \E o \in OptionSet : Scan(s, Obj(o), Fn("cb"))

OptionError(s) == \E i \in 1..Len(pending[s]), e \in Errors : ReplyError(s, i, e)

OptionData(s) ==
    \E i \in 1..Len(pending[s]), c \in StoreCursors, m \in OptionBatches :
        /\ WellFormed(options[s])
        /\ Method(options[s]) \in {"scan", "sscan"}
        /\ ReplyData(s, i, Str(c), m, FALSE)

OptionPairData(s) ==
    \E i \in 1..Len(pending[s]), c \in StoreCursors, ps \in StorePairBatches :
        /\ WellFormed(options[s])
        /\ Method(options[s]) \in {"hscan", "zscan"}
        /\ ReplyData(s, i, Str(c), FlatPairs(ps), FALSE)

OptionNext ==
    \E s \in Solo :
        \/ OptionEachScan(s)
        \/ OptionScan(s)
        \/ OptionError(s)
        \/ OptionData(s)
        \/ OptionPairData(s)

OptionSpec == Init /\ [][OptionNext]_vars

(***************************************************************************)
(* Two sessions on one scanner: session 1 is started without the options   *)
(* argument, session 2 with an empty options object.                       *)
(***************************************************************************)
ArgsOmitted(s) ==
    \/ EachScan(s, Fn("onBatch"), Fn("onDone"), Undefined)
    \/ Scan(s, Fn("cb"), Undefined)

ArgsGiven(s) ==
    \/ EachScan(s, Obj(NoOptions), Fn("onBatch"), Fn("onDone"))
    \/ Scan(s, Obj(NoOptions), Fn("cb"))

ArgsError(s) == \E i \in 1..Len(pending[s]), e \in Errors : ReplyError(s, i, e)

ArgsData(s) ==
    \E i \in 1..Len(pending[s]), c \in StoreCursors, m \in PairBatches :
        ReplyData(s, i, Str(c), m, FALSE)

ArgsNext ==
    \/ ArgsOmitted(1)
    \/ ArgsGiven(2)
    \/ \E s \in Sessions : ArgsError(s) \/ ArgsData(s)

ArgsSpec == Init /\ [][ArgsNext]_vars

\* The store client answers every round trip.
FairSpec == Spec /\ \A s \in Solo : WF_vars(StoreError(s) \/ StoreData(s))

(***************************************************************************)
(* Reading a session's log.                                                *)
(***************************************************************************)
RECURSIVE SumLen(_)
SumLen(bs) == IF bs = <<>> THEN 0 ELSE Len(Head(bs)) + SumLen(Tail(bs))

RECURSIVE Flatten(_)
Flatten(bs) == IF bs = <<>> THEN <<>> ELSE Head(bs) \o Flatten(Tail(bs))

\* The batches handed to the caller's batch function in the events l.
DeliveredIn(l) ==
    LET ob == SelectSeq(l, IsOnBatch)
    IN  [k \in 1..Len(ob) |-> ob[k].args[1].v]

\* The batches the store returned in the events l.
RepliedIn(l) ==
    LET rs == SelectSeq(l, IsDataReply)
    IN  [k \in 1..Len(rs) |-> rs[k].matches]

Upto(s, i) == SubSeq(log[s], 1, i)

OnDoneIdx(s) == {i \in 1..Len(log[s]) : IsOnDone(log[s][i])}
OnBatchIdx(s) == {i \in 1..Len(log[s]) : IsOnBatch(log[s][i])}
CbIdx(s) == {i \in 1..Len(log[s]) : IsCb(log[s][i])}
CallIdx(s) == {i \in 1..Len(log[s]) : IsCall(log[s][i])}
ErrReplyIdx(s) == {i \in 1..Len(log[s]) : IsErrReply(log[s][i])}
DataReplyIdx(s) == {i \in 1..Len(log[s]) : IsDataReply(log[s][i])}

Started(s) == log[s] # <<>>

\* An eachScan session whose caller gave both callbacks.
EachScanSession(s) ==
    Started(s) /\ eachScanCallback[s] = Fn("onBatch") /\ callback[s] = Fn("onDone")

\* An eachScan session whose second callback is the caller's batch function.
BatchSession(s) == Started(s) /\ eachScanCallback[s] = Fn("onBatch")

\* A session started by scan().
ScanSession(s) == Started(s) /\ callback[s] = Fn("finish")

IsErrorArgs(a) == Len(a) = 1 /\ a[1].t = "error"
IsSuccessArgs(a) == Len(a) = 2 /\ a[1] = Null /\ a[2].t = "number"

(***************************************************************************)
(* C1: onDone is invoked at most once per session, with an error alone or  *)
(* with (null, total), and nothing follows it: it is the last event of the *)
(* session and no store call is left in flight.                            *)
(***************************************************************************)
C1_TerminalOnce ==
    \A s \in Sessions :
        /\ Cardinality(OnDoneIdx(s)) <= 1
        /\ \A i \in OnDoneIdx(s) :
              /\ IsErrorArgs(log[s][i].args) \/ IsSuccessArgs(log[s][i].args)
              /\ i = Len(log[s])
              /\ pending[s] = <<>>

C1_Witness ==
    \E s \in Sessions :
        /\ OnDoneIdx(s) # {}
        /\ NumReplies(s) >= 2
        /\ NumReplies(s) < MaxRounds

(***************************************************************************)
(* C2: when the store answers every round trip, a started eachScan session *)
(* eventually invokes onDone and a started scan call eventually invokes    *)
(* its caller's callback.                                                  *)
(***************************************************************************)
\* A started session whose caller gave a final callback: onDone for
\* eachScan, the callback of scan.
AwaitsFinal(s) ==
    EachScanSession(s) \/ (ScanSession(s) /\ scanCallback[s] = Fn("cb"))

\* That final callback has been invoked.
FinalInvoked(s) ==
    \/ EachScanSession(s) /\ OnDoneIdx(s) # {}
    \/ ScanSession(s) /\ CbIdx(s) # {}

C2_Terminates == \A s \in Sessions : AwaitsFinal(s) ~> FinalInvoked(s)

C2_Witness ==
    \E s \in Sessions :
        /\ EachScanSession(s)
        /\ OnDoneIdx(s) # {}
        /\ NumReplies(s) = MaxRounds
        /\ options[s] = NoOptions

(***************************************************************************)
(* C3: the running total is the sum of the lengths of the batches          *)
(* delivered so far, and the total of a successful onDone is that sum.     *)
(***************************************************************************)
C3_TotalIsSum ==
    \A s \in Sessions :
        BatchSession(s) =>
            /\ matchesCount[s] = SumLen(DeliveredIn(log[s]))
            /\ \A i \in OnDoneIdx(s) :
                  IsSuccessArgs(log[s][i].args) =>
                      log[s][i].args[2].v = SumLen(DeliveredIn(log[s]))

C3_Witness ==
    \E s \in Sessions :
        /\ EachScanSession(s)
        /\ \E i \in OnDoneIdx(s) :
              /\ IsSuccessArgs(log[s][i].args)
              /\ log[s][i].args[2].v >= 3
        /\ Len(DeliveredIn(log[s])) >= 2

(***************************************************************************)
(* C4: a successful scan passes to its caller exactly the concatenation of *)
(* the batches the store returned, in arrival order.                       *)
(***************************************************************************)
C4_ScanConcatenates ==
    \A s \in Sessions :
        ScanSession(s) =>
            \A i \in CbIdx(s) :
                log[s][i].args[1] = Null =>
                    log[s][i].args = <<Null, Arr(Flatten(RepliedIn(log[s])))>>

C4_Witness ==
    \E s \in Sessions :
        /\ ScanSession(s)
        /\ \E i \in CbIdx(s) :
              /\ log[s][i].args[1] = Null
              /\ Len(log[s][i].args[2].v) >= 3
              /\ log[s][i].args[2].v[1] # log[s][i].args[2].v[3]
        /\ Len(RepliedIn(log[s])) >= 2

C7_ErrorIsTerminal ==
    \A s \in Sessions :
        EachScanSession(s) =>
            \A i \in ErrReplyIdx(s) :
                /\ Len(log[s]) = i + 1
                /\ IsOnDone(log[s][i + 1])
                /\ log[s][i + 1].args = <<log[s][i].err>>
                /\ NumCalls(s) = NumReplies(s)
                /\ pending[s] = <<>>
                /\ Len(DeliveredIn(log[s])) = NumReplies(s) - 1
                /\ DeliveredIn(log[s]) = RepliedIn(log[s])

C7_Witness ==
    \E s \in Sessions :
        /\ EachScanSession(s)
        /\ ErrReplyIdx(s) # {}
        /\ NumReplies(s) = 3
        /\ SumLen(DeliveredIn(log[s])) >= 2
        /\ log[s][Len(log[s])].args = <<Err("ETIMEDOUT")>>

(***************************************************************************)
(* C8: when a scan call fails on a round trip, its caller's callback is    *)
(* invoked once, with the error as its only argument: the keys collected   *)
(* before are not passed.                                                  *)
(***************************************************************************)
C8_ScanErrorOnly ==
    \A s \in Sessions :
        ScanSession(s) =>
            \A i \in ErrReplyIdx(s) :
                /\ CbIdx(s) = {i + 1}
                /\ Len(log[s]) = i + 1
                /\ log[s][i + 1].args = <<log[s][i].err>>

C8_Witness ==
    \E s \in Sessions :
        /\ ScanSession(s)
        /\ ErrReplyIdx(s) # {}
        /\ keys[s] # <<>>
        /\ CbIdx(s) # {}

(***************************************************************************)
(* C9: a session that ends in success and whose replies were all empty has *)
(* made a store call and invoked the batch function with an empty batch    *)
(* before onDone, ends with onDone(null, 0), and scan passes an empty      *)
(* sequence.                                                               *)
(***************************************************************************)
AllEmpty(s) == \A i \in DataReplyIdx(s) : log[s][i].matches = <<>>

C9_ZeroMatches ==
    \A s \in Sessions :
        AllEmpty(s) =>
            /\ EachScanSession(s) =>
                  \A i \in OnDoneIdx(s) :
                      IsSuccessArgs(log[s][i].args) =>
                          /\ NumCalls(s) >= 1
                          /\ \E j \in OnBatchIdx(s) :
                                j < i /\ log[s][j].args = <<Arr(<<>>)>>
                          /\ log[s][i].args = <<Null, Num(0)>>
            /\ ScanSession(s) =>
                  \A i \in CbIdx(s) :
                      log[s][i].args[1] = Null =>
                          /\ NumCalls(s) >= 1
                          /\ log[s][i].args = <<Null, Arr(<<>>)>>

C9_Witness ==
    \E s \in Sessions :
        /\ EachScanSession(s)
        /\ AllEmpty(s)
        /\ options[s] = NoOptions
        /\ Cardinality(DataReplyIdx(s)) = 2
        /\ \E i \in OnDoneIdx(s) : log[s][i].args = <<Null, Num(0)>>

(***************************************************************************)
(* C10: at most one store call of a session is in flight, and every store  *)
(* call but the first directly follows the delivery of the batch of the    *)
(* reply to the call before it.                                            *)
(***************************************************************************)
C10_OneInFlight ==
    \A s \in Sessions :
        /\ Len(pending[s]) <= 1
        /\ NumCalls(s) <= NumReplies(s) + 1
        /\ BatchSession(s) =>
              \A i \in CallIdx(s) :
                  i > 1 =>
                      /\ IsOnBatch(log[s][i - 1])
                      /\ IsDataReply(log[s][i - 2])
                      /\ log[s][i - 1].args = <<Arr(log[s][i - 2].matches)>>
                      /\ IsCall(log[s][i - 3])
        /\ ScanSession(s) =>
              \A i \in CallIdx(s) :
                  i > 1 => IsDataReply(log[s][i - 1]) /\ IsCall(log[s][i - 2])

C10_Witness ==
    \E s \in Sessions :
        /\ BatchSession(s)
        /\ Len(pending[s]) = 1
        /\ NumReplies(s) = 2
        /\ NumCalls(s) = 3

(***************************************************************************)
(* C11: with two sessions interleaving on one scanner, each session's      *)
(* cursor, running total and collected sequence are those of its own       *)
(* replies alone, and so are the total and the sequence it reports.        *)
(***************************************************************************)
\* The cursor the session would pass next, from its own replies alone.
OwnCursor(s) ==
    LET rs == SelectSeq(log[s], IsDataReply)
    IN  IF rs = <<>> THEN Num(0) ELSE rs[Len(rs)].cursor

CursorArg(call) ==
    IF call.method = "scan" THEN call.params[1] ELSE call.params[2]

C11_SessionsIndependent ==
    \A s \in Sessions :
        Started(s) =>
            /\ matchesCount[s] = SumLen(RepliedIn(log[s]))
            /\ ScanSession(s) => keys[s] = Flatten(RepliedIn(log[s]))
            /\ \A k \in 1..Len(pending[s]) : CursorArg(pending[s][k]) = OwnCursor(s)
            /\ \A i \in OnDoneIdx(s) :
                  IsSuccessArgs(log[s][i].args) =>
                      log[s][i].args[2].v = SumLen(RepliedIn(log[s]))
            /\ \A i \in CbIdx(s) :
                  log[s][i].args[1] = Null =>
                      log[s][i].args[2].v = Flatten(RepliedIn(log[s]))

C11_Witness ==
    /\ \A s \in Sessions : Len(RepliedIn(log[s])) >= 2
    /\ matchesCount[1] # matchesCount[2]
    /\ matchesCount[1] > 0
    /\ matchesCount[2] > 0
    /\ pending[1] # <<>>
    /\ OnDoneIdx(2) # {}

(***************************************************************************)
(* C12: a session started through hscan, sscan or zscan (eachHScan,        *)
(* eachSScan, eachZScan) and a session started through scan (eachScan)     *)
(* with the options {method, key} and the same callbacks make the same     *)
(* store calls and the same callback invocations whenever the store gave   *)
(* them the same replies.                                                  *)
(***************************************************************************)
VariantMethod(api) ==
    CASE api \in {"hscan", "eachHScan"} -> "hscan"
      [] api \in {"sscan", "eachSScan"} -> "sscan"
      [] api \in {"zscan", "eachZScan"} -> "zscan"

\* e is a call of a variant method and g the call of the generic method
\* with the expanded options.
Expanded(e, g) ==
    \/ /\ e.api \in {"hscan", "sscan", "zscan"}
       /\ g.api = "scan"
       /\ g.args = <<Obj([method |-> VariantMethod(e.api), key |-> e.args[1].v]),
                     e.args[2]>>
    \/ /\ e.api \in {"eachHScan", "eachSScan", "eachZScan"}
       /\ g.api = "eachScan"
       /\ g.args = <<Obj([method |-> VariantMethod(e.api), key |-> e.args[1].v]),
                     e.args[2], e.args[3]>>

RepliesIn(l) == SelectSeq(l, IsReply)

C12_VariantsAreGeneric ==
    \A s \in Sessions, g \in Sessions :
        (Expanded(entry[s], entry[g]) /\ RepliesIn(log[s]) = RepliesIn(log[g])) =>
            /\ log[s] = log[g]
            /\ pending[s] = pending[g]
            /\ matchesCount[s] = matchesCount[g]
            /\ keys[s] = keys[g]

C12_Witness ==
    \E s \in Sessions, g \in Sessions :
        /\ Expanded(entry[s], entry[g])
        /\ entry[s].api = "eachSScan"
        /\ RepliesIn(log[s]) = RepliesIn(log[g])
        /\ Len(RepliesIn(log[s])) >= 2
        /\ OnDoneIdx(s) # {}
        /\ matchesCount[s] > 0

(***************************************************************************)
(* C13: a session on a hash, a set or a sorted set that is given no key    *)
(* issues no store call at all, and its final callback, once it has been   *)
(* called, has received an error.                                          *)
(***************************************************************************)
ContainerWithoutKey(s) ==
    /\ Started(s)
    /\ "method" \in DOMAIN options[s]
    /\ options[s].method \in VariantMethods
    /\ "key" \notin DOMAIN options[s]

C13_MissingKeyFailsLocally ==
    \A s \in Sessions :
        ContainerWithoutKey(s) =>
            /\ NumCalls(s) = 0
            /\ pending[s] = <<>>
            /\ \A i \in OnDoneIdx(s) \cup CbIdx(s) : IsErrorArgs(log[s][i].args)

(***************************************************************************)
(* C14: on a hash or a sorted set the store returns pairs, and every pair  *)
(* takes two slots.  With p pairs returned in all, the running total is    *)
(* 2p, eachScan reports 2p, scan's result has 2p elements, and the two     *)
(* elements of each pair are adjacent, first then second, the pairs in the *)
(* order of the store.                                                     *)
(***************************************************************************)
\* The pairs a reader finds in a flat array: slots 1-2, 3-4, ...
PairsOf(flat) == [k \in 1..(Len(flat) \div 2) |-> <<flat[2 * k - 1], flat[2 * k]>>]

\* The pairs the store returned in the events l, reply after reply.
StorePairsIn(l) ==
    LET rs == RepliedIn(l)
    IN  Flatten([k \in 1..Len(rs) |-> PairsOf(rs[k])])

PairSession(s) ==
    Started(s) /\ WellFormed(options[s]) /\ Method(options[s]) \in {"hscan", "zscan"}

C14_PairsCountTwice ==
    \A s \in Sessions :
        PairSession(s) =>
            LET ps == StorePairsIn(log[s])
            IN  /\ \A k \in 1..Len(ps) : ps[k] \in StorePairs
                /\ matchesCount[s] = 2 * Len(ps)
                /\ BatchSession(s) => PairsOf(Flatten(DeliveredIn(log[s]))) = ps
                /\ \A i \in OnDoneIdx(s) :
                       IsSuccessArgs(log[s][i].args) =>
                           log[s][i].args[2] = Num(2 * Len(ps))
                /\ \A i \in CbIdx(s) :
                       Len(log[s][i].args) = 2 =>
                           /\ Len(log[s][i].args[2].v) = 2 * Len(ps)
                           /\ PairsOf(log[s][i].args[2].v) = ps

C14_Witness ==
    \E s \in Sessions :
        /\ PairSession(s)
        /\ ScanSession(s)
        /\ NumReplies(s) >= 2
        /\ Len(StorePairsIn(log[s])) >= 3
        /\ \E i \in CbIdx(s) : Len(log[s][i].args) = 2

(***************************************************************************)
(* C15: whatever batch-size hint is given (none, or a positive count),     *)
(* when the store returns each matching element exactly once over a walk   *)
(* that ends with the sentinel cursor, eachScan reports the number of      *)
(* matching elements and scan returns that many elements, each of them     *)
(* once.                                                                   *)
(***************************************************************************)
ExactlyOnce(seq) ==
    /\ Len(seq) = Cardinality(Elems)
    /\ {seq[k] : k \in 1..Len(seq)} = Elems

\* The store was walked to the sentinel, and returned each element once.
FullWalk(s) ==
    LET rs == SelectSeq(log[s], IsDataReply)
    IN  /\ rs # <<>>
        /\ rs[Len(rs)].cursor = Sentinel
        /\ ExactlyOnce(Flatten(RepliedIn(log[s])))

C15_HintIndependent ==
    \A s \in Sessions, c \in Maybe({1, 5}) :
        (/\ Started(s)
         /\ FullWalk(s)
         /\ c = (IF "count" \in DOMAIN options[s] THEN <<options[s].count>> ELSE <<>>)) =>
            /\ EachScanSession(s) =>
                   \E i \in OnDoneIdx(s) :
                       log[s][i].args = <<Null, Num(Cardinality(Elems))>>
            /\ ScanSession(s) =>
                   \E i \in CbIdx(s) :
                       /\ Len(log[s][i].args) = 2
                       /\ log[s][i].args[1] = Null
                       /\ ExactlyOnce(log[s][i].args[2].v)

C15_Witness ==
    \E s \in Sessions :
        /\ EachScanSession(s)
        /\ "count" \in DOMAIN options[s]
        /\ options[s].count = 1
        /\ FullWalk(s)
        /\ NumReplies(s) = 2
        /\ OnDoneIdx(s) # {}

(***************************************************************************)
(* C16: a generic session that is given a type filter passes the clause    *)
(* ("TYPE", filter) on every store call; a session on a hash, a set or a   *)
(* sorted set never passes it, and neither does a session without filter.  *)
(***************************************************************************)
HasTypeClause(call, t) ==
    \E k \in 1..(Len(call.params) - 1) :
        call.params[k] = Str("TYPE") /\ call.params[k + 1] = Str(t)

MentionsType(call) == \E k \in 1..Len(call.params) : call.params[k] = Str("TYPE")

HasLimit(s) == Started(s) /\ "limit" \in DOMAIN options[s]

NeverCancelled(s) == \A i \in OnBatchIdx(s) : log[s][i].ret = FALSE

\* The cursor of the last data reply is the sentinel.
Exhausted(s) ==
    LET rs == SelectSeq(log[s], IsDataReply)
    IN  rs # <<>> /\ rs[Len(rs)].cursor = Sentinel

CursorText(v) == IF v.t = "number" THEN ToString(v.v) ELSE v.v

C18_CursorThreading ==
    \A s \in Sessions :
        \A i \in CallIdx(s) :
            LET before == SelectSeq(Upto(s, i - 1), IsDataReply)
            IN  IF before = <<>>
                THEN CursorText(CursorArg(log[s][i])) = "0"
                ELSE CursorArg(log[s][i]) = before[Len(before)].cursor

C18_Witness ==
    \E s \in Sessions :
        /\ NumCalls(s) = 3
        /\ \E i \in CallIdx(s) :
               /\ i > 1
               /\ log[s][i - 1].ev \in {"reply", "invoke"}
               /\ CursorArg(log[s][i]) = Str("17")

(***************************************************************************)
(* C19: in a session without limit, cancellation or error, the final       *)
(* callback reports success exactly when a round trip returns the sentinel *)
(* cursor: it follows that batch at once, no store call follows it, and it *)
(* never reports success after a round trip with another cursor.           *)
(***************************************************************************)
\* No limit is set, no batch callback cancelled, and both ends are callable.
PlainSession(s) ==
    /\ EachScanSession(s) \/ ScanSession(s)
    /\ "limit" \notin DOMAIN options[s]
    /\ NeverCancelled(s)

IsFinalSuccess(e) ==
    /\ IsOnDone(e) \/ IsCb(e)
    /\ Len(e.args) = 2
    /\ e.args[1] = Null

\* The index of the last reply before event i (0 when there is none).
LastReplyBefore(s, i) ==
    LET rs == {j \in 1..(i - 1) : IsReply(log[s][j])}
    IN  IF rs = {} THEN 0 ELSE CHOOSE j \in rs : \A k \in rs : k <= j

C19_EndsAtSentinel ==
    \A s \in Sessions :
        PlainSession(s) =>
            /\ \A i \in DataReplyIdx(s) :
                   log[s][i].cursor = Sentinel =>
                       LET j == IF EachScanSession(s) THEN i + 2 ELSE i + 1
                       IN  /\ Len(log[s]) = j
                           /\ IsFinalSuccess(log[s][j])
                           /\ EachScanSession(s) => IsOnBatch(log[s][i + 1])
                           /\ pending[s] = <<>>
            /\ \A i \in 1..Len(log[s]) :
                   IsFinalSuccess(log[s][i]) =>
                       LET r == LastReplyBefore(s, i)
                       IN  /\ r > 0
                           /\ IsDataReply(log[s][r])
                           /\ log[s][r].cursor = Sentinel
                           /\ \A k \in (r + 1)..(i - 1) : IsOnBatch(log[s][k])

C19_Witness ==
    \E s \in Sessions :
        /\ PlainSession(s)
        /\ EachScanSession(s)
        /\ NumReplies(s) = 3
        /\ IsFinalSuccess(log[s][Len(log[s])])

(***************************************************************************)
(* C20: a round trip that returns an empty batch with a cursor other than  *)
(* the sentinel does not end the session (when no cancellation is          *)
(* signalled and no limit is reached): the empty batch goes to the batch   *)
(* callback, the next store call is issued with that cursor, and the final *)
(* callback is not called.                                                 *)
(***************************************************************************)
\* The limit of the session is reached with the replies up to event i.
LimitReachedAt(s, i) ==
    /\ "limit" \in DOMAIN options[s]
    /\ SumLen(RepliedIn(Upto(s, i))) >= options[s].limit

EmptyContinuing(s, i) ==
    /\ IsDataReply(log[s][i])
    /\ log[s][i].matches = <<>>
    /\ log[s][i].cursor # Sentinel
    /\ ~LimitReachedAt(s, i)

C20_EmptyBatchContinues ==
    \A s \in Sessions :
        \A i \in 1..Len(log[s]) :
            EmptyContinuing(s, i) =>
                /\ BatchSession(s) =>
                       /\ Len(log[s]) >= i + 1
                       /\ IsOnBatch(log[s][i + 1])
                       /\ log[s][i + 1].args = <<Arr(<<>>)>>
                       /\ log[s][i + 1].ret = FALSE =>
                              /\ Len(log[s]) >= i + 2
                              /\ IsCall(log[s][i + 2])
                              /\ CursorArg(log[s][i + 2]) = log[s][i].cursor
                /\ ScanSession(s) =>
                       /\ Len(log[s]) >= i + 1
                       /\ IsCall(log[s][i + 1])
                       /\ CursorArg(log[s][i + 1]) = log[s][i].cursor

C20_Witness ==
    \E s \in Sessions :
        /\ EachScanSession(s)
        /\ \E i \in 1..Len(log[s]) :
               /\ EmptyContinuing(s, i)
               /\ Len(log[s]) = i + 2
               /\ IsCall(log[s][i + 2])
               /\ pending[s] = <<log[s][i + 2]>>

(***************************************************************************)
(* C21: the batch callback is invoked once per successful round trip, with *)
(* the batch of that round trip (an empty one too) and in the order of the *)
(* round trips: in every state there are as many invocations as data       *)
(* replies, and the i-th invocation carries the i-th reply's batch.        *)
(***************************************************************************)
C21_BatchPerRoundTrip ==
    \A s \in Sessions :
        BatchSession(s) =>
            LET ob == SelectSeq(log[s], IsOnBatch)
                rs == SelectSeq(log[s], IsDataReply)
            IN  /\ Len(ob) = Len(rs)
                /\ \A k \in 1..Len(ob) : ob[k].args = <<Arr(rs[k].matches)>>
                /\ \A i \in DataReplyIdx(s) :
                       /\ Len(log[s]) > i
                       /\ IsOnBatch(log[s][i + 1])

C21_Witness ==
    \E s \in Sessions :
        /\ BatchSession(s)
        /\ Len(SelectSeq(log[s], IsOnBatch)) = 3
        /\ \E i \in OnBatchIdx(s), j \in OnBatchIdx(s) :
               /\ log[s][i].args = <<Arr(<<>>)>>
               /\ log[s][j].args # <<Arr(<<>>)>>

(***************************************************************************)
(* C22: the final callback comes last.  When it reports success the batch  *)
(* of the last round trip has been handed to the batch callback just       *)
(* before it; the batch callback is never invoked after it, whether the    *)
(* session ended by the sentinel, by cancellation, by the limit or by an   *)
(* error.                                                                  *)
(***************************************************************************)
C22_DoneComesLast ==
    \A s \in Sessions :
        EachScanSession(s) =>
            \A i \in OnDoneIdx(s) :
                /\ \A j \in (i + 1)..Len(log[s]) : ~IsOnBatch(log[s][j])
                /\ DeliveredIn(Upto(s, i)) = RepliedIn(log[s])
                /\ IsSuccessArgs(log[s][i].args) =>
                       /\ i > 2
                       /\ IsDataReply(log[s][i - 2])
                       /\ IsOnBatch(log[s][i - 1])
                       /\ log[s][i - 1].args = <<Arr(log[s][i - 2].matches)>>

C22_Witness ==
    \E s \in Sessions :
        /\ EachScanSession(s)
        /\ \E i \in OnDoneIdx(s) :
               /\ IsSuccessArgs(log[s][i].args)
               /\ "limit" \notin DOMAIN options[s]
               /\ log[s][i - 2].cursor = Sentinel
               /\ log[s][i - 1].ret = FALSE
               /\ log[s][i - 1].args # <<Arr(<<>>)>>
               /\ NumReplies(s) = 2

(***************************************************************************)
(* C23: the key is the first argument of every store call of a session on  *)
(* a hash, a set or a sorted set, and a generic session ignores a key in   *)
(* its options: its store calls begin with (cursor, "MATCH", pattern) as   *)
(* those of a generic session without key do.                              *)
(***************************************************************************)
IsCursor(v) == v = Num(0) \/ v \in {Str(c) : c \in StoreCursors}

C23_KeyOnlyForContainers ==
    \A s \in Sessions :
        \A i \in CallIdx(s) :
            LET params == log[s][i].params
            IN  IF "method" \in DOMAIN options[s]
                THEN "key" \in DOMAIN options[s] =>
                         /\ params[1] = Str(options[s].key)
                         /\ IsCursor(params[2])
                ELSE /\ IsCursor(params[1])
                     /\ params[2] = Str("MATCH")
                     /\ params[3] = Str(Pattern)

(***************************************************************************)
(* C24: the clause ("COUNT", count) is part of a store call exactly when   *)
(* the options give a count and it is positive, once and with the value    *)
(* given, on every round trip alike; with no count, with zero or with a    *)
(* negative count no store call has a COUNT clause.                        *)
(***************************************************************************)
CountClauses(call) ==
    {k \in 1..Len(call.params) : call.params[k] = Str("COUNT")}

C24_CountOnlyIfPositive ==
    \A s \in Sessions :
        \A i \in CallIdx(s) :
            IF "count" \in DOMAIN options[s] /\ options[s].count > 0
            THEN \E k \in 1..(Len(log[s][i].params) - 1) :
                     /\ CountClauses(log[s][i]) = {k}
                     /\ log[s][i].params[k + 1] = Num(options[s].count)
            ELSE CountClauses(log[s][i]) = {}

C24_Witness ==
    \E s \in Sessions :
        /\ "count" \in DOMAIN options[s]
        /\ options[s].count = 5
        /\ NumCalls(s) = 3
        /\ \A i \in CallIdx(s) : CountClauses(log[s][i]) # {}

\* A session with a negative count has made its calls without the clause.
C24_WitnessNegative ==
    \E s \in Sessions :
        /\ "count" \in DOMAIN options[s]
        /\ options[s].count < 0
        /\ NumCalls(s) = 3
        /\ \A i \in CallIdx(s) : CountClauses(log[s][i]) = {}

(***************************************************************************)
(* C25: the options argument is optional.  eachScan(pattern, onBatch,      *)
(* onDone) and eachScan(pattern, {}, onBatch, onDone), and likewise        *)
(* scan(pattern, onDone) and scan(pattern, {}, onDone), behave the same on *)
(* the same store replies: a generic scan without key and without COUNT,   *)
(* with each callback in the role the caller gave it.                      *)
(***************************************************************************)
\* e is a call without the options argument, g the same call with {}.
OptionsOmitted(e, g) ==
    \/ /\ e.api = "eachScan"
       /\ g.api = "eachScan"
       /\ e.args[3] = Undefined
       /\ g.args = <<Obj(NoOptions), e.args[1], e.args[2]>>
    \/ /\ e.api = "scan"
       /\ g.api = "scan"
       /\ e.args[2] = Undefined
       /\ g.args = <<Obj(NoOptions), e.args[1]>>

C25_OptionsOptional ==
    \A s \in Sessions, g \in Sessions :
        (OptionsOmitted(entry[s], entry[g]) /\ RepliesIn(log[s]) = RepliesIn(log[g])) =>
            /\ log[s] = log[g]
            /\ pending[s] = pending[g]
            /\ matchesCount[s] = matchesCount[g]
            /\ keys[s] = keys[g]
            /\ \A i \in CallIdx(s) :
                   /\ log[s][i].method = "scan"
                   /\ Len(log[s][i].params) = 3
                   /\ IsCursor(log[s][i].params[1])
                   /\ log[s][i].params[2] = Str("MATCH")
                   /\ log[s][i].params[3] = Str(Pattern)
            /\ entry[s].api = "eachScan" =>
                   /\ eachScanCallback[s] = entry[s].args[1]
                   /\ callback[s] = entry[s].args[2]
                   /\ \A i \in 1..Len(log[s]) :
                          log[s][i].ev = "invoke" =>
                              log[s][i].fn =
                                  (IF Len(log[s][i].args) = 1 /\ log[s][i].args[1].t = "array"
                                   THEN entry[s].args[1].v
                                   ELSE entry[s].args[2].v)
            /\ entry[s].api = "scan" => scanCallback[s] = entry[s].args[1]

C25_Witness ==
    \E s \in Sessions, g \in Sessions :
        /\ OptionsOmitted(entry[s], entry[g])
        /\ entry[s].api = "eachScan"
        /\ RepliesIn(log[s]) = RepliesIn(log[g])
        /\ Len(RepliesIn(log[s])) >= 2
        /\ OnDoneIdx(s) # {}
        /\ OnDoneIdx(g) # {}
        /\ matchesCount[s] > 0

(***************************************************************************)
(* C26: the final callback of eachScan is optional.  A session started     *)
(* without it, with or without an options argument, hands the batch of     *)
(* every round trip to the batch callback, goes on to the sentinel cursor  *)
(* and, when the store reports no error, ends without raising one:         *)
(* neither the options object nor an undefined value is called as a        *)
(* function.                                                               *)
(***************************************************************************)
\* eachScan was called with the batch callback as its last argument.
NoFinalCallback(s) ==
    /\ entry[s].api = "eachScan"
    /\ \A k \in 1..Len(entry[s].args) : entry[s].args[k] # Fn("onDone")

C26_FinalCallbackOptional ==
    \A s \in Sessions :
        (NoFinalCallback(s) /\ ErrReplyIdx(s) = {}) =>
            /\ \A i \in 1..Len(log[s]) : ~IsThrow(log[s][i])
            /\ DeliveredIn(log[s]) = RepliedIn(log[s])
            /\ \A i \in DataReplyIdx(s) :
                   (log[s][i].cursor # Sentinel
                    /\ ~LimitReachedAt(s, i)
                    /\ NeverCancelled(s)) =>
                       \E j \in (i + 1)..Len(log[s]) : IsCall(log[s][j])

TypeOK ==
    \A s \in Sessions :
        /\ matchesCount[s] \in 0..SumLen(RepliedIn(log[s]))
        /\ Len(log[s]) <= 3 * MaxRounds + 1
====
